---- MODULE Spec2Model ----
(***************************************************************************)
(* The usps-tracking-status worker: ingestion of ShipStation shipments     *)
(* (paginated fetch, INSERT .. ON CONFLICT DO NOTHING batch), bulk status  *)
(* updates, the /search query and the tracking-URL export, over the one    *)
(* table tracking_numbers.                                                 *)
(*                                                                         *)
(* Text values are sequences of one-character strings, so that prefixes    *)
(* (the leading "!") and substrings (LIKE) are computed, not assumed.      *)
(* SQL NULL is the value NULL, which is no text.                           *)
(***************************************************************************)
EXTENDS Integers, Sequences, FiniteSets, TLC

VARIABLES
    db,         \* the table tracking_numbers: its rows in rowid order
    now,        \* the store's clock, what datetime('now') returns
    pc,         \* per ingestion invocation: "idle", "await" (a page request is outstanding), "store"
    via,        \* per invocation: "direct" (index.ts) or "proxied" (the historical variant)
    page,       \* per invocation: the page number of the outstanding request
    pages,      \* per invocation: firstPageData.pages
    acc,        \* per invocation: allShipments
    shipments,  \* per invocation: what fetchNewShipments returned to the handler
    reqs,       \* per invocation: the page requests issued in this run, in order
    recv,       \* per invocation: the responses received in this run, in order
    out,        \* per invocation: how the last run of the handler ended
    updOut,     \* the response to the last POST /tracking-status
    last,       \* the batch the step just taken submitted to the store, if it submitted one
    query,      \* the /search request last handled
    found,      \* the rows the last /search returned
    stmt,       \* the statement the last /search prepared: its text and its bindings
    listed,     \* trackingNumbers of the last /tracking-urls: what its query returned
    urlOut,     \* the response to the last /tracking-urls
    upd,        \* per client: its POST /tracking-status in flight, statement by statement
    db0         \* the table before any request

vars == <<db, now, pc, via, page, pages, acc, shipments, reqs, recv, out, updOut, last, query, found, stmt,
         listed, urlOut, upd, db0>>

ingestVars == <<pc, via, page, pages, acc, shipments, reqs, recv, out>>
searchVars == <<query, found, stmt>>
urlVars == <<listed, urlOut>>
flightVars == <<upd, db0>>

----------------------------------------------------------------------------
(* Bounds of the model *)

MaxTime == 1        \* the clock runs 0..MaxTime
MaxPages == 3       \* the page counts a response declares run 0..MaxPages
MaxUpdates == 2     \* entries of one status-update payload
MaxShipments == 3   \* shipments of one fetched list handed to storeNewTrackingNumbers
MaxRows == 3        \* stored rows of the stores the searches are drawn over
SearchLimit == 3    \* the row cap of a search (LIMIT 2000), scaled to these stores
MaxIds == 66        \* rows of the stores the URL exports are drawn over
UrlLimit == 65      \* the row cap of /tracking-urls (LIMIT 2000), scaled to these stores
UrlLimitOld == 35   \* the row cap of its historical variants (LIMIT 300), scaled

----------------------------------------------------------------------------
(* Text *)

NULL == <<"NULL">>

pending == <<"p", "e", "n", "d", "i", "n", "g">>
in_transit == <<"i", "n", "_", "t", "r", "a", "n", "s", "i", "t">>
delivered == <<"d", "e", "l", "i", "v", "e", "r", "e", "d">>
out_for_delivery == <<"o", "u", "t", "_", "f", "o", "r", "_", "d", "e", "l", "i", "v", "e", "r", "y">>

\* Tracking numbers and order numbers the carrier and the clients use here.
T1 == <<"9", "1">>
T2 == <<"9", "2">>
O1 == <<"A", "7">>
O2 == <<"b", "7">>

----------------------------------------------------------------------------
(* The store *)

Row(tn, ord, st, c, u) ==
    [tracking_number |-> tn, order_number |-> ord, status |-> st,
     created_at |-> c, updated_at |-> u]

HasRow(d, tn) == \E i \in DOMAIN d : d[i].tracking_number = tn

RowOf(d, tn) == d[CHOOSE i \in DOMAIN d : d[i].tracking_number = tn]

TrackingNumbersOf(d) == {d[i].tracking_number : i \in DOMAIN d}

\* A bug the primary key would let through: the insert without the conflict clause
\* on a table without the key.
InsertAlways(d, s, t) ==
    Append(d, Row(s.trackingNumber, s.orderNumber, pending, t, t))

\* A bug: INSERT OR REPLACE, which rewrites the existing row.
InsertOrReplace(d, s, t) ==
    IF HasRow(d, s.trackingNumber)
    THEN [i \in DOMAIN d |->
            IF d[i].tracking_number = s.trackingNumber
            THEN Row(s.trackingNumber, s.orderNumber, pending, t, t)
            ELSE d[i]]
    ELSE Append(d, Row(s.trackingNumber, s.orderNumber, pending, t, t))

\* One statement of the insert batch: INSERT .. VALUES (?, ?, 'pending', datetime('now'))
\* ON CONFLICT(tracking_number) DO NOTHING; updated_at takes its column default.
InsertOrIgnore(d, s, t) ==
    IF HasRow(d, s.trackingNumber)
    THEN d
    ELSE Append(d, Row(s.trackingNumber, s.orderNumber, pending, t, t))

RECURSIVE InsertBatchDroppingLast(_, _, _)
\* A bug: the batch loses its last statement.
InsertBatchDroppingLast(d, L, t) ==
    IF Len(L) <= 1 THEN d
    ELSE InsertBatchDroppingLast(InsertOrIgnore(d, Head(L), t), Tail(L), t)

RECURSIVE InsertBatch(_, _, _)
\* db.batch(batch): the statements in array order, in one transaction.
InsertBatch(d, L, t) ==
    IF L = <<>> THEN d
    ELSE InsertBatch(InsertOrIgnore(d, Head(L), t), Tail(L), t)

\* A bug: the statements run one by one, the first stays when a later one fails.
InsertsRunOneByOne(d, L, t) == IF L = <<>> THEN d ELSE InsertOrIgnore(d, Head(L), t)

\* db.batch(batch) that the store rejects: the batch is one transaction, none of
\* its statements has taken effect.
InsertBatchRejected(d, L, t) == d

\* storeNewTrackingNumbers(shipments, db) at time t: nothing is submitted for an
\* empty list, else the batch is committed.
storeNewTrackingNumbers(d, L, t) ==
    IF Len(L) = 0 THEN d ELSE InsertBatch(d, L, t)

\* A bug: the update also rewrites created_at.
UpdateTouchingCreated(d, u, t) ==
    [i \in DOMAIN d |->
        IF d[i].tracking_number = u.tracking_number
        THEN [d[i] EXCEPT !.status = u.status, !.updated_at = t, !.created_at = t]
        ELSE d[i]]

\* A bug: an upsert, which creates the row an update does not find.
UpsertStatus(d, u, t) ==
    IF \E i \in DOMAIN d : d[i].tracking_number = u.tracking_number
    THEN [i \in DOMAIN d |->
            IF d[i].tracking_number = u.tracking_number
            THEN [d[i] EXCEPT !.status = u.status, !.updated_at = t]
            ELSE d[i]]
    ELSE Append(d, Row(u.tracking_number, NULL, u.status, t, t))

\* A bug: a delivered row is not written again.
UpdateUnlessDelivered(d, u, t) ==
    [i \in DOMAIN d |->
        IF d[i].tracking_number = u.tracking_number /\ d[i].status # delivered
        THEN [d[i] EXCEPT !.status = u.status, !.updated_at = t]
        ELSE d[i]]

\* One statement of the update batch: UPDATE tracking_numbers SET status = ?,
\* updated_at = datetime('now') WHERE tracking_number = ?
UpdateStatus(d, u, t) ==
    [i \in DOMAIN d |->
        IF d[i].tracking_number = u.tracking_number
        THEN [d[i] EXCEPT !.status = u.status, !.updated_at = t]
        ELSE d[i]]

RECURSIVE UpdateBatchReversed(_, _, _)
\* A bug: the batch applied from its last statement to its first.
UpdateBatchReversed(d, U, t) ==
    IF U = <<>> THEN d
    ELSE UpdateStatus(UpdateBatchReversed(d, Tail(U), t), Head(U), t)

RECURSIVE UpdateBatch(_, _, _)
\* env.STATUS_DB.batch(batch): the statements in array order, in one transaction.
UpdateBatch(d, U, t) ==
    IF U = <<>> THEN d
    ELSE UpdateBatch(UpdateStatus(d, Head(U), t), Tail(U), t)

\* A bug: the statements run one by one, the first stays when a later one fails.
UpdatesRunOneByOne(d, U, t) == IF U = <<>> THEN d ELSE UpdateStatus(d, Head(U), t)

\* env.STATUS_DB.batch(batch) that the store rejects: none of its statements has
\* taken effect.
UpdateBatchRejected(d, U, t) == d

----------------------------------------------------------------------------
(* The carrier: what a page request can be answered with *)

Shipment(tn, ord) == [trackingNumber |-> tn, orderNumber |-> ord, carrierCode |-> "usps"]

S_A == Shipment(T1, O1)
S_B == Shipment(T1, O2)     \* the tracking number of S_A under another order
S_C == Shipment(T2, O1)

PageLists == {<<>>, <<S_A>>, <<S_B, S_C>>}

\* A response: its HTTP status, whether its JSON body has a shipments field, that
\* field, and the pages field.
Response(st, has, sh, n) ==
    [status |-> st, hasShipments |-> has, shipments |-> sh, pages |-> n]

\* A non-success answer: its body is not the listing.
ErrResponse == Response(500, FALSE, <<>>, 0)

Responses ==
    {Response(200, TRUE, sh, n) : sh \in PageLists, n \in 0..MaxPages}
        \cup {Response(200, FALSE, <<>>, n) : n \in 0..MaxPages}
        \cup {ErrResponse, Response(500, TRUE, <<S_A>>, 1)}

\* The answers the whole-system specification draws from.
SysResponses ==
    {Response(200, TRUE, <<S_A>>, 1), Response(200, TRUE, <<S_B, S_C>>, 2), ErrResponse}

----------------------------------------------------------------------------
(* Ingestion: scheduled() and GET /test-scheduled *)

Procs == {"scheduled", "test"}

\* What `last` records of a step: "store" and "update" are committed batches,
\* "store rejected" and "update rejected" batches the store refused.
Step(op, p, input) == [op |-> op, proc |-> p, input |-> input]

NoStep == Step("none", "none", <<>>)

NoOut == [kind |-> "none", status |-> 0, error |-> "", shipments |-> <<>>]

\* The handler's try block ran to its end: /test-scheduled answers {shipments},
\* scheduled() returns nothing.
Returned(p, L) ==
    IF p = "test"
    THEN [kind |-> "ok", status |-> 200, error |-> "", shipments |-> L]
    ELSE [kind |-> "ok", status |-> 0, error |-> "", shipments |-> <<>>]

\* An exception reached the handler: /test-scheduled answers {error} with status
\* 500, scheduled() logs it; the proxied variant's /test-scheduled has no try.
Thrown(p, v, msg) ==
    IF p = "test"
    THEN IF v = "proxied"
         THEN [kind |-> "uncaught", status |-> 0, error |-> msg, shipments |-> <<>>]
         ELSE [kind |-> "error", status |-> 500, error |-> msg, shipments |-> <<>>]
    ELSE [kind |-> "logged", status |-> 0, error |-> msg, shipments |-> <<>>]

\* response.ok
Ok(r) == r.status \in 200..299

\* A bug: the status of the response is not looked at.
PageErrorIgnoringStatus(r) ==
    IF ~r.hasShipments THEN "Invalid response format: missing shipments array"
    ELSE ""

\* fetchShipStationPage's two checks: the error it throws, "" when it returns data.
PageError(r) ==
    IF ~Ok(r) THEN "ShipStation API error"
    ELSE IF ~r.hasShipments THEN "Invalid response format: missing shipments array"
    ELSE ""

\* allShipments.map(shipment => ({trackingNumber, orderNumber}))
Project(L) ==
    [i \in DOMAIN L |->
        [trackingNumber |-> L[i].trackingNumber, orderNumber |-> L[i].orderNumber]]

\* A bug: each page replaces what was accumulated.
AccumulateLast(all, sh) == sh

\* allShipments = [...allShipments, ...pageData.shipments]
Accumulate(all, sh) == all \o sh

\* A bug: the loop stops one page early.
MorePagesShort(k, count) == k + 1 < count

\* After page k was accepted: is there a page k + 1 (pages > 1, page <= pages)?
MorePages(k, count) == k < count

\* The handler is entered and fetchNewShipments issues its first request.
Invoke(p, v) ==
    /\ pc[p] = "idle"
    /\ pc' = [pc EXCEPT ![p] = "await"]
    /\ via' = [via EXCEPT ![p] = v]
    /\ page' = [page EXCEPT ![p] = 1]
    /\ pages' = [pages EXCEPT ![p] = 0]
    /\ acc' = [acc EXCEPT ![p] = <<>>]
    /\ shipments' = [shipments EXCEPT ![p] = <<>>]
    /\ reqs' = [reqs EXCEPT ![p] = <<1>>]
    /\ recv' = [recv EXCEPT ![p] = <<>>]
    /\ out' = [out EXCEPT ![p] = NoOut]
    /\ last' = NoStep
    /\ UNCHANGED <<db, now, updOut, searchVars, urlVars, flightVars>>

\* A bug: a failing page ends the fetch with the shipments of the pages before it,
\* which the handler goes on to store.
ReturnFetchedSoFar(p, msg) ==
    /\ pc' = [pc EXCEPT ![p] = "store"]
    /\ page' = [page EXCEPT ![p] = 0]
    /\ pages' = [pages EXCEPT ![p] = 0]
    /\ acc' = [acc EXCEPT ![p] = <<>>]
    /\ shipments' = [shipments EXCEPT ![p] = Project(acc[p])]
    /\ UNCHANGED <<reqs, out>>

\* The fetch ends with an exception, which the handler catches (or not).
Abort(p, msg) ==
    /\ pc' = [pc EXCEPT ![p] = "idle"]
    /\ page' = [page EXCEPT ![p] = 0]
    /\ pages' = [pages EXCEPT ![p] = 0]
    /\ acc' = [acc EXCEPT ![p] = <<>>]
    /\ shipments' = [shipments EXCEPT ![p] = <<>>]
    /\ out' = [out EXCEPT ![p] = Thrown(p, via[p], msg)]
    /\ UNCHANGED reqs

\* fetchNewShipments returns its list to the handler.
Return(p, L) ==
    /\ pc' = [pc EXCEPT ![p] = "store"]
    /\ page' = [page EXCEPT ![p] = 0]
    /\ pages' = [pages EXCEPT ![p] = 0]
    /\ acc' = [acc EXCEPT ![p] = <<>>]
    /\ shipments' = [shipments EXCEPT ![p] = Project(L)]
    /\ UNCHANGED <<reqs, out>>

\* The answer r to the outstanding page request arrives: fetchShipStationPage checks
\* it, fetchNewShipments appends its shipments and asks for the next page or returns.
fetchShipStationPage(p, r) ==
    /\ pc[p] = "await"
    /\ via[p] = "direct"
    /\ recv' = [recv EXCEPT ![p] = Append(@, r)]
    /\ last' = NoStep
    /\ IF PageError(r) # ""
       THEN Abort(p, PageError(r))
       ELSE LET all == Accumulate(acc[p], r.shipments)
                count == IF page[p] = 1 THEN r.pages ELSE pages[p]
            IN  IF MorePages(page[p], count)
                THEN /\ page' = [page EXCEPT ![p] = @ + 1]
                     /\ pages' = [pages EXCEPT ![p] = count]
                     /\ acc' = [acc EXCEPT ![p] = all]
                     /\ reqs' = [reqs EXCEPT ![p] = Append(@, page[p] + 1)]
                     /\ UNCHANGED <<pc, shipments, out>>
                ELSE Return(p, all)
    /\ UNCHANGED <<db, now, via, updOut, searchVars, urlVars, flightVars>>

\* The proxied variant: one request, no status check, data.shipments.map(...).
fetchProxied(p, r) ==
    /\ pc[p] = "await"
    /\ via[p] = "proxied"
    /\ recv' = [recv EXCEPT ![p] = Append(@, r)]
    /\ last' = NoStep
    /\ IF ~r.hasShipments
       THEN Abort(p, "TypeError")
       ELSE Return(p, r.shipments)
    /\ UNCHANGED <<db, now, via, updOut, searchVars, urlVars, flightVars>>

\* await storeNewTrackingNumbers(shipments, env.STATUS_DB) and the end of the handler.
IngestStore(p) ==
    /\ pc[p] = "store"
    /\ db' = storeNewTrackingNumbers(db, shipments[p], now)
    /\ out' = [out EXCEPT ![p] = Returned(p, shipments[p])]
    /\ last' = Step("store", p, shipments[p])
    /\ pc' = [pc EXCEPT ![p] = "idle"]
    /\ shipments' = [shipments EXCEPT ![p] = <<>>]
    /\ UNCHANGED <<now, via, page, pages, acc, reqs, recv, updOut, searchVars, urlVars, flightVars>>

\* The store rejects the batch: the transaction is rolled back, db.batch throws.
IngestStoreRejected(p) ==
    /\ pc[p] = "store"
    /\ shipments[p] # <<>>
    /\ db' = InsertBatchRejected(db, shipments[p], now)
    /\ out' = [out EXCEPT ![p] = Thrown(p, via[p], "batch failed")]
    /\ last' = Step("store rejected", p, shipments[p])
    /\ pc' = [pc EXCEPT ![p] = "idle"]
    /\ shipments' = [shipments EXCEPT ![p] = <<>>]
    /\ UNCHANGED <<now, via, page, pages, acc, reqs, recv, updOut, searchVars, urlVars, flightVars>>

----------------------------------------------------------------------------
(* Reconciliation: POST /tracking-status *)

StatusUpdate(tn, st) == [tracking_number |-> tn, status |-> st]

UpdateEntries == {StatusUpdate(tn, st) : tn \in {T1, T2}, st \in {delivered, pending}}

RECURSIVE SeqsUpTo(_, _)
SeqsUpTo(S, n) ==
    IF n = 0 THEN {<<>>}
    ELSE LET shorter == SeqsUpTo(S, n - 1)
         IN  shorter \cup {Append(q, x) : q \in {r \in shorter : Len(r) = n - 1}, x \in S}

\* The request bodies: a JSON array of updates, or text that is no JSON.
Payloads ==
    {[body |-> "json", updates |-> U] : U \in SeqsUpTo(UpdateEntries, MaxUpdates)}
        \cup {[body |-> "invalid", updates |-> <<>>]}

\* The bodies the whole-system specification draws from: every single update (a
\* batch acts as its updates one after the other), two batches, one invalid body.
SysPayloads ==
    {[body |-> "json", updates |-> <<e>>] : e \in UpdateEntries}
        \cup {[body |-> "json", updates |-> <<StatusUpdate(T2, delivered), StatusUpdate(T2, pending)>>],
              [body |-> "json", updates |-> <<StatusUpdate(T2, pending), StatusUpdate(T1, delivered)>>],
              [body |-> "invalid", updates |-> <<>>]}

Failure(msg) == [status |-> 500, success |-> FALSE, error |-> msg]

\* handleStatusUpdates on the body b at time t: request.json(), the batch of
\* updates, {success: true}; a body that is no JSON is answered with status 500.
\* The store after it and the response.
handleStatusUpdates(d, b, t) ==
    IF b.body = "invalid"
    THEN [db |-> d, out |-> Failure("Failed to update statuses")]
    ELSE [db |-> UpdateBatch(d, b.updates, t),
          out |-> [status |-> 200, success |-> TRUE, error |-> ""]]

\* POST /tracking-status with the body b.
PostTrackingStatus(b) ==
    /\ db' = handleStatusUpdates(db, b, now).db
    /\ updOut' = handleStatusUpdates(db, b, now).out
    /\ last' = Step("update", "status", b)
    /\ UNCHANGED <<now, ingestVars, searchVars, urlVars, flightVars>>

\* The store rejects the batch of updates: rolled back, the handler answers 500.
PostTrackingStatusRejected(b) ==
    /\ b.body = "json"
    /\ db' = UpdateBatchRejected(db, b.updates, now)
    /\ updOut' = Failure("Failed to update statuses")
    /\ last' = Step("update rejected", "status", b)
    /\ UNCHANGED <<now, ingestVars, searchVars, urlVars, flightVars>>

\* The clients whose status updates may be in flight together.
Clients == {"a", "b"}

NoFlight ==
    [pc |-> "idle", body |-> [body |-> "invalid", updates |-> <<>>], rest |-> <<>>,
     at |-> 0, raced |-> FALSE, out |-> [status |-> 0, success |-> FALSE, error |-> ""]]

\* A bug: the statements are run one by one, each a transaction of its own.
StatementAtATime(U) == IF U = <<>> THEN 0 ELSE 1

\* How many of the statements U the store runs with no other statement between
\* them: batch(U) is one transaction, all of them.
BatchUnit(U) == Len(U)

\* handleStatusUpdates of client c up to its `await env.STATUS_DB.batch(batch)`:
\* the body is parsed and the statements are bound; a body that is no JSON is
\* answered with status 500.
UpdateArrives(c, b) ==
    /\ upd[c].pc = "idle"
    /\ upd' = [upd EXCEPT ![c] =
                IF b.body = "invalid"
                THEN [NoFlight EXCEPT !.pc = "done", !.body = b, !.at = now,
                                      !.out = Failure("Failed to update statuses")]
                ELSE [NoFlight EXCEPT !.pc = "batch", !.body = b, !.rest = b.updates]]
    /\ last' = NoStep
    /\ UNCHANGED <<db, now, ingestVars, updOut, searchVars, urlVars, db0>>

\* The store runs the batch of client c; when no statement is left the handler
\* answers {success: true}.
BatchRuns(c) ==
    /\ upd[c].pc = "batch"
    /\ LET n == BatchUnit(upd[c].rest)
           left == SubSeq(upd[c].rest, n + 1, Len(upd[c].rest))
           raced == upd[c].raced \/ \E o \in Clients \ {c} : upd[o].pc = "batch"
       IN  /\ db' = UpdateBatch(db, SubSeq(upd[c].rest, 1, n), now)
           /\ upd' = [upd EXCEPT ![c] =
                        IF left = <<>>
                        THEN [@ EXCEPT !.pc = "done", !.rest = <<>>, !.at = now, !.raced = raced,
                                       !.out = [status |-> 200, success |-> TRUE, error |-> ""]]
                        ELSE [@ EXCEPT !.rest = left, !.raced = raced]]
    /\ last' = Step("update in flight", c, upd[c].body)
    /\ UNCHANGED <<now, ingestVars, updOut, searchVars, urlVars, db0>>

\* A second passes.
Tick ==
    /\ now < MaxTime
    /\ now' = now + 1
    /\ last' = NoStep
    /\ UNCHANGED <<db, ingestVars, updOut, searchVars, urlVars, flightVars>>

----------------------------------------------------------------------------
(* The search: GET /search *)

\* url.searchParams.get(key) of a key the request does not carry.
Absent == <<"ABSENT">>

SearchParams(tn, ord, st, after, before) ==
    [tracking_number |-> tn, order_number |-> ord, status |-> st,
     created_after |-> after, created_before |-> before]

NoQuery == SearchParams(Absent, Absent, Absent, Absent, Absent)

\* `url.searchParams.get(key) || undefined` and `if (params.key)`: a key that is
\* missing or empty adds no clause.
Supplied(raw) == raw # Absent /\ Len(raw) > 0

\* A bug: the marker is recognised and left in the value.
parseSearchValueKeepingMarker(value) ==
    IF Len(value) > 0 /\ Head(value) = "!"
    THEN [operation |-> "!=", value |-> value]
    ELSE [operation |-> "=", value |-> value]

parseSearchValue(value) ==
    IF Len(value) > 0 /\ Head(value) = "!"
    THEN [operation |-> "!=", value |-> Tail(value)]
    ELSE [operation |-> "=", value |-> value]

\* The store's LIKE folds the case of ASCII letters.
Fold(c) == CASE c = "A" -> "a" [] c = "B" -> "b" [] OTHER -> c

RECURSIVE LikeMatch(_, _)
\* x LIKE pat for a text x: % stands for any run of characters, _ for any one.
LikeMatch(x, pat) ==
    IF Len(pat) = 0 THEN Len(x) = 0
    ELSE IF Head(pat) = "%"
         THEN \E k \in 0..Len(x) : LikeMatch(SubSeq(x, k + 1, Len(x)), Tail(pat))
         ELSE /\ Len(x) > 0
              /\ Head(pat) = "_" \/ Fold(Head(pat)) = Fold(Head(x))
              /\ LikeMatch(Tail(x), Tail(pat))

\* `%${value}%`
Around(value) == <<"%">> \o value \o <<"%">>

\* The clause `col LIKE ?` or `col NOT LIKE ?` as the WHERE sees it: on a NULL
\* column either is NULL, which does not select the row.
LikeClause(x, raw) ==
    LET pv == parseSearchValue(raw)
    IN  /\ x # NULL
        /\ IF pv.operation = "!="
           THEN ~LikeMatch(x, Around(pv.value))
           ELSE LikeMatch(x, Around(pv.value))

\* The clause `status ${operation} ?`.
StatusClause(x, raw) ==
    LET pv == parseSearchValue(raw)
    IN  /\ x # NULL
        /\ IF pv.operation = "!=" THEN x # pv.value ELSE x = pv.value

NoInstant == 0 - 1

\* datetime(?): the instant a date text stands for, NULL (NoInstant) for a text
\* that is no date.
DateTime(raw) ==
    CASE raw = <<"0">> -> 0
      [] raw = <<"1">> -> 1
      [] raw = <<"2">> -> 2
      [] OTHER -> NoInstant

\* The WHERE clause that handleSearch builds for the parameters q, on one row.
Where(row, q) ==
    /\ Supplied(q.tracking_number) => LikeClause(row.tracking_number, q.tracking_number)
    /\ Supplied(q.order_number) => LikeClause(row.order_number, q.order_number)
    /\ Supplied(q.status) => StatusClause(row.status, q.status)
    /\ Supplied(q.created_after) =>
            /\ DateTime(q.created_after) # NoInstant
            /\ row.created_at >= DateTime(q.created_after)
    /\ Supplied(q.created_before) =>
            /\ DateTime(q.created_before) # NoInstant
            /\ row.created_at <= DateTime(q.created_before)

\* What one `if (params.x)` block adds to sql and to bindings. The text is a
\* sequence of words; a placeholder is the word "?".
NoText == [sql |-> <<>>, bindings |-> <<>>]

\* sql += ' AND col NOT LIKE ?' or ' AND col LIKE ?'; bindings.push(`%${value}%`)
LikeText(col, raw) ==
    LET pv == parseSearchValue(raw)
    IN  [sql |-> IF pv.operation = "!="
                 THEN <<"AND", col, "NOT", "LIKE", "?">>
                 ELSE <<"AND", col, "LIKE", "?">>,
         bindings |-> <<Around(pv.value)>>]

\* A bug: the value is written into the text.
StatusTextInlined(raw) ==
    LET pv == parseSearchValue(raw)
    IN  [sql |-> <<"AND", "status", pv.operation, ToString(pv.value)>>, bindings |-> <<>>]

\* sql += ` AND status ${operation} ?`; bindings.push(value)
StatusText(raw) ==
    LET pv == parseSearchValue(raw)
    IN  [sql |-> <<"AND", "status", pv.operation, "?">>, bindings |-> <<pv.value>>]

\* sql += ' AND created_at >= datetime(?)'; bindings.push(params.created_after)
DateText(op, raw) ==
    [sql |-> <<"AND", "created_at", op, "datetime(", "?", ")">>, bindings |-> <<raw>>]

\* The statement handleSearch prepares for the parameters q, and what it binds.
\* (The text reads LIMIT 2000; the stores here are cut at SearchLimit.)
Statement(q) ==
    LET tn == IF Supplied(q.tracking_number)
              THEN LikeText("tracking_number", q.tracking_number) ELSE NoText
        ord == IF Supplied(q.order_number)
               THEN LikeText("order_number", q.order_number) ELSE NoText
        st == IF Supplied(q.status) THEN StatusText(q.status) ELSE NoText
        after == IF Supplied(q.created_after) THEN DateText(">=", q.created_after) ELSE NoText
        before == IF Supplied(q.created_before) THEN DateText("<=", q.created_before) ELSE NoText
    IN  [sql |-> <<"SELECT", "*", "FROM", "tracking_numbers", "WHERE", "1=1">>
                    \o tn.sql \o ord.sql \o st.sql \o after.sql \o before.sql
                    \o <<"ORDER", "BY", "created_at", "ASC", "LIMIT", "2000">>,
         bindings |-> tn.bindings \o ord.bindings \o st.bindings
                        \o after.bindings \o before.bindings]

Min(a, b) == IF a < b THEN a ELSE b

\* A bug: ORDER BY created_at DESC.
Latest(d, M, n) ==
    {f \in [1..n -> M] :
        /\ \A j, k \in 1..n : j < k => f[j] # f[k] /\ d[f[j]].created_at >= d[f[k]].created_at
        /\ \A i \in M : (\A k \in 1..n : f[k] # i) =>
                \A k \in 1..n : d[f[k]].created_at >= d[i].created_at}

\* ORDER BY created_at ASC LIMIT n over the rows M of d: the ways to list the n
\* earliest, rows of one created_at in any order.
Earliest(d, M, n) ==
    {f \in [1..n -> M] :
        /\ \A j, k \in 1..n : j < k => f[j] # f[k] /\ d[f[j]].created_at <= d[f[k]].created_at
        /\ \A i \in M : (\A k \in 1..n : f[k] # i) =>
                \A k \in 1..n : d[f[k]].created_at <= d[i].created_at}

\* handleSearch: the responses the query q can get from the store d.
handleSearch(d, q) ==
    LET M == {i \in DOMAIN d : Where(d[i], q)}
        n == Min(Cardinality(M), SearchLimit)
    IN  {[status |-> 200, results |-> [k \in 1..n |-> d[f[k]]], count |-> n, error |-> ""] :
            f \in Earliest(d, M, n)}

NoResults == [status |-> 0, results |-> <<>>, count |-> 0, error |-> ""]

\* GET /search with the parameters q.
Search(q) ==
    /\ query' = q
    /\ stmt' = Statement(q)
    /\ found' \in handleSearch(db, q)
    /\ last' = Step("search", "search", q)
    /\ UNCHANGED <<db, now, ingestVars, updOut, urlVars, flightVars>>

\* The store fails the query: the handler answers 500.
SearchRejected(q) ==
    /\ query' = q
    /\ stmt' = Statement(q)
    /\ found' = [status |-> 500, results |-> <<>>, count |-> 0,
                  error |-> "Failed to search tracking numbers"]
    /\ last' = Step("search rejected", "search", q)
    /\ UNCHANGED <<db, now, ingestVars, updOut, urlVars, flightVars>>

\* The rows schema.sql loads, their tracking numbers cut to their last two digits.
SampleRows ==
    <<Row(<<"5", "4">>, NULL, pending, 0, 0),
      Row(<<"2", "2">>, NULL, in_transit, 0, 0),
      Row(<<"5", "3">>, NULL, delivered, 0, 0),
      Row(<<"7", "7">>, NULL, out_for_delivery, 0, 0)>>

\* Rows as ingestion and status updates leave them.
StoredRows ==
    {Row(T1, O1, pending, 0, 0),
     Row(T2, O2, delivered, 0, 1),
     Row(<<"1", "9">>, NULL, delivered, 1, 1),
     Row(<<"2", "1">>, O1, in_transit, 1, 1)}

\* The stores the searches are drawn over: up to MaxRows of the stored rows in
\* any order, and the sample rows, alone and followed by one stored row.
SearchStores ==
    {d \in SeqsUpTo(StoredRows, MaxRows) : \A i, j \in DOMAIN d : d[i] = d[j] => i = j}
        \cup {SampleRows} \cup {Append(SampleRows, r) : r \in StoredRows}

\* The requests the searches are drawn from: every combination of the text
\* filters, and the date filters alone and beside a status filter.
Queries ==
    {SearchParams(tn, ord, st, Absent, Absent) :
        tn \in {Absent, <<"1">>, <<"!", "1">>, <<"_", "2">>, <<"!">>},
        ord \in {Absent, <<"a">>, <<"!", "a">>, <<"7">>},
        st \in {Absent, <<>>, delivered, <<"!">> \o delivered, pending}}
    \cup
    {SearchParams(Absent, Absent, st, after, before) :
        st \in {Absent, <<"!">> \o delivered},
        after \in {Absent, <<"1">>, <<"x">>},
        before \in {Absent, <<"0">>}}

----------------------------------------------------------------------------
(* The URL export: GET /tracking-urls *)

\* 30 tracking numbers per URL.
ChunkSize == 30

Delivered == <<"D", "e", "l", "i", "v", "e", "r", "e", "d">>

\* The variants of handleGetTrackingUrls: index.ts, and the two of the history.
UrlVariants == {"index", "limit300", "Delivered"}

\* The value of `status != '..'` in the variant v.
Terminal(v) == IF v = "Delivered" THEN Delivered ELSE delivered

\* The LIMIT of the variant v.
UrlCap(v) == IF v = "index" THEN UrlLimit ELSE UrlLimitOld

RECURSIVE Reverse(_)
Reverse(s) == IF s = <<>> THEN <<>> ELSE Append(Reverse(Tail(s)), Head(s))

\* The query has no ORDER BY: the order of the scan is the store's choice, rowid
\* order or its reverse here.
ScanOrders == {"rowid", "reverse"}

Scan(d, o) == IF o = "rowid" THEN d ELSE Reverse(d)

RECURSIVE Select(_, _)
\* WHERE status != terminal, over the rows in the order given; NULL != .. is not true.
Select(d, terminal) ==
    IF d = <<>> THEN <<>>
    ELSE IF Head(d).status # NULL /\ Head(d).status # terminal
         THEN <<Head(d)>> \o Select(Tail(d), terminal)
         ELSE Select(Tail(d), terminal)

\* LIMIT n
Limit(s, n) == SubSeq(s, 1, Min(Len(s), n))

\* result.results.map(row => row.tracking_number) of the variant v under the scan o.
TrackingNumbersQuery(d, v, o) ==
    LET rows == Limit(Select(Scan(d, o), Terminal(v)), UrlCap(v))
    IN  [k \in DOMAIN rows |-> rows[k].tracking_number]

\* A bug: slice(i, i + 29).
SliceShort(a, i, j) == SubSeq(a, i + 1, Min(j - 1, Len(a)))

\* a.slice(i, j), indices from 0, j not included and cut at the length.
Slice(a, i, j) == SubSeq(a, i + 1, Min(j, Len(a)))

Comma == <<"%", "2", "C">>

RECURSIVE Join(_, _)
\* chunk.join(sep)
Join(chunk, sep) ==
    IF chunk = <<>> THEN <<>>
    ELSE IF Len(chunk) = 1 THEN Head(chunk)
         ELSE Head(chunk) \o sep \o Join(Tail(chunk), sep)

\* 'https://tools.usps.com/go/TrackConfirmAction.action?tLabels=' + chunk.join('%2C')
Url(chunk) ==
    [base |-> "https://tools.usps.com/go/TrackConfirmAction.action?tLabels=",
     labels |-> Join(chunk, Comma)]

RECURSIVE UrlsFrom(_, _)
\* for (let i = ..; i < trackingNumbers.length; i += 30) urls.push(..)
UrlsFrom(T, i) ==
    IF i < Len(T)
    THEN <<Url(Slice(T, i, i + ChunkSize))>> \o UrlsFrom(T, i + ChunkSize)
    ELSE <<>>

NoUrls == [status |-> 0, urls |-> <<>>, error |-> ""]

\* GET /tracking-urls in the variant v, the store scanning in the order o.
GetTrackingUrls(v, o) ==
    /\ listed' = TrackingNumbersQuery(db, v, o)
    /\ urlOut' = [status |-> 200, urls |-> UrlsFrom(listed', 0), error |-> ""]
    /\ last' = Step("urls", "urls", v)
    /\ UNCHANGED <<db, now, ingestVars, updOut, searchVars, flightVars>>

\* The store fails the query: the handler answers 500.
GetTrackingUrlsRejected(v) ==
    /\ listed' = <<>>
    /\ urlOut' = [status |-> 500, urls |-> <<>>, error |-> "Failed to get tracking URLs"]
    /\ last' = Step("urls rejected", "urls", v)
    /\ UNCHANGED <<db, now, ingestVars, updOut, searchVars, flightVars>>

Digits == <<"0", "1", "2", "3", "4", "5", "6", "7", "8", "9">>

\* The n-th tracking number of the stores drawn below.
Id(n) == <<"9", Digits[((n \div 10) % 10) + 1], Digits[(n % 10) + 1]>>

\* How the statuses lie in a store: the status of its i-th row.
StatusPatterns == {"pending", "mixed", "third", "delivered"}

StatusAt(pat, i) ==
    CASE pat = "pending" -> pending
      [] pat = "mixed" -> IF i % 2 = 0 THEN delivered ELSE in_transit
      [] pat = "third" -> IF i % 3 = 1 THEN delivered ELSE out_for_delivery
      [] OTHER -> delivered

\* The stores the exports are drawn over: up to MaxIds ingested rows.
UrlStores ==
    {[i \in 1..n |-> Row(Id(i), NULL, StatusAt(pat, i), 0, 0)] :
        n \in 0..MaxIds, pat \in StatusPatterns}

----------------------------------------------------------------------------
(* The whole system *)

InitWith(d) ==
    /\ db = d
    /\ now = 0
    /\ pc = [p \in Procs |-> "idle"]
    /\ via = [p \in Procs |-> "direct"]
    /\ page = [p \in Procs |-> 0]
    /\ pages = [p \in Procs |-> 0]
    /\ acc = [p \in Procs |-> <<>>]
    /\ shipments = [p \in Procs |-> <<>>]
    /\ reqs = [p \in Procs |-> <<>>]
    /\ recv = [p \in Procs |-> <<>>]
    /\ out = [p \in Procs |-> NoOut]
    /\ updOut = [status |-> 0, success |-> FALSE, error |-> ""]
    /\ last = NoStep
    /\ query = NoQuery
    /\ found = NoResults
    /\ stmt = NoText
    /\ listed = <<>>
    /\ urlOut = NoUrls
    /\ upd = [c \in Clients |-> NoFlight]
    /\ db0 = d

Init == InitWith(<<>>)

Next ==
    \/ \E p \in Procs : Invoke(p, "direct")
    \/ \E p \in Procs, r \in SysResponses : fetchShipStationPage(p, r)
    \/ \E p \in Procs : IngestStore(p)
    \/ \E p \in Procs : IngestStoreRejected(p)
    \/ \E b \in SysPayloads : PostTrackingStatus(b)
    \/ \E b \in SysPayloads : PostTrackingStatusRejected(b)
    \/ Tick

\* Both ingestion entry points, overlapping each other and the status updates.
Spec == Init /\ [][Next]_vars

\* The invocations one after the other: one ingestion entry point and the status
\* updates. Batches are atomic and a fetch reads no row, so this reaches every
\* store that Spec reaches.
SerialNext ==
    \/ Invoke("test", "direct")
    \/ \E r \in SysResponses : fetchShipStationPage("test", r)
    \/ IngestStore("test")
    \/ IngestStoreRejected("test")
    \/ \E b \in SysPayloads : PostTrackingStatus(b)
    \/ \E b \in SysPayloads : PostTrackingStatusRejected(b)
    \/ Tick

SerialSpec == Init /\ [][SerialNext]_vars

\* The searches, every request over every store drawn.
SearchInit == \E d \in SearchStores : InitWith(d)

SearchNext ==
    \/ \E q \in Queries : Search(q)
    \/ \E q \in Queries : SearchRejected(q)

SearchSpec == SearchInit /\ [][SearchNext]_vars

\* The URL exports, every variant over every store drawn.
UrlInit == \E d \in UrlStores : InitWith(d)

UrlNext ==
    \/ \E v \in UrlVariants, o \in ScanOrders : GetTrackingUrls(v, o)
    \/ \E v \in UrlVariants : GetTrackingUrlsRejected(v)

UrlSpec == UrlInit /\ [][UrlNext]_vars

\* What the entry points are given in the specification of all of them.
WorkerResponses == {Response(200, TRUE, <<S_B, S_C>>, 1), ErrResponse, Response(200, FALSE, <<>>, 1)}

WorkerPayloads ==
    {[body |-> "json", updates |-> <<StatusUpdate(T1, delivered)>>],
     [body |-> "json", updates |-> <<StatusUpdate(T1, pending), StatusUpdate(T2, delivered)>>],
     [body |-> "invalid", updates |-> <<>>]}

WorkerQueries == {NoQuery, SearchParams(Absent, Absent, <<"!">> \o delivered, Absent, Absent)}

\* Every entry point, in every variant, the invocations one after the other.
WorkerNext ==
    \/ \E p \in Procs, v \in {"direct", "proxied"} :
            (\A o \in Procs : pc[o] = "idle") /\ Invoke(p, v)
    \/ \E p \in Procs, r \in WorkerResponses : fetchShipStationPage(p, r)
    \/ \E p \in Procs, r \in WorkerResponses : fetchProxied(p, r)
    \/ \E p \in Procs : IngestStore(p)
    \/ \E p \in Procs : IngestStoreRejected(p)
    \/ \E b \in WorkerPayloads : PostTrackingStatus(b)
    \/ \E b \in WorkerPayloads : PostTrackingStatusRejected(b)
    \/ \E q \in WorkerQueries : Search(q)
    \/ \E q \in WorkerQueries : SearchRejected(q)
    \/ \E v \in UrlVariants : GetTrackingUrls(v, "rowid")
    \/ \E v \in UrlVariants : GetTrackingUrlsRejected(v)

WorkerSpec == Init /\ [][WorkerNext]_vars

\* Stores of ingested rows, some of them updated since.
UpdateStores ==
    {<<>>,
     <<Row(T1, O1, pending, 0, 0)>>,
     <<Row(T2, O1, delivered, 0, 0), Row(T1, O2, pending, 0, 0)>>}

\* Two status updates in flight together, over every store drawn.
UpdateInit == \E d \in UpdateStores : InitWith(d)

RaceNext ==
    \/ \E c \in Clients, b \in Payloads : UpdateArrives(c, b)
    \/ \E c \in Clients : BatchRuns(c)
    \/ Tick

RaceSpec == UpdateInit /\ [][RaceNext]_vars

\* Status updates and URL exports, over every store drawn.
ReconcileNext ==
    \/ \E b \in SysPayloads : PostTrackingStatus(b)
    \/ \E b \in SysPayloads : PostTrackingStatusRejected(b)
    \/ \E v \in UrlVariants, o \in ScanOrders : GetTrackingUrls(v, o)
    \/ \E v \in UrlVariants : GetTrackingUrlsRejected(v)
    \/ Tick

ReconcileSpec == UpdateInit /\ [][ReconcileNext]_vars

\* One ingestion entry point, in either variant, against every answer of the carrier.
FetchNext ==
    \/ \E v \in {"direct", "proxied"} : Invoke("test", v)
    \/ \E r \in Responses : fetchShipStationPage("test", r)
    \/ \E r \in Responses : fetchProxied("test", r)
    \/ IngestStore("test")
    \/ IngestStoreRejected("test")

FetchSpec == Init /\ [][FetchNext]_vars

----------------------------------------------------------------------------
(* Inputs the properties range over *)

ShipmentData(tn, ord) == [trackingNumber |-> tn, orderNumber |-> ord]

\* The lists fetchNewShipments can hand to storeNewTrackingNumbers.
FetchedLists ==
    SeqsUpTo({ShipmentData(T1, O1), ShipmentData(T1, O2), ShipmentData(T2, O1)}, MaxShipments)

JsonPayloads == {b \in Payloads : b.body = "json"}

RowsOf(d, tn) == {d[i] : i \in {k \in DOMAIN d : d[k].tracking_number = tn}}

Mentions(L, tn) == \E j \in DOMAIN L : L[j].trackingNumber = tn

\* The first shipment of L with the tracking number tn.
FirstOf(L, tn) ==
    L[CHOOSE j \in DOMAIN L :
        /\ L[j].trackingNumber = tn
        /\ \A k \in 1..(j - 1) : L[k].trackingNumber # tn]

Updates(U, tn) == \E j \in DOMAIN U : U[j].tracking_number = tn

\* The last entry of the payload U for the tracking number tn.
LastOf(U, tn) ==
    U[CHOOSE j \in DOMAIN U :
        /\ U[j].tracking_number = tn
        /\ \A k \in (j + 1)..Len(U) : U[k].tracking_number # tn]

----------------------------------------------------------------------------
(* Ingestion into the store *)

\* C1: in every reachable store, for every fetched list L, storing L a second time
\* (then or later) leaves the store exactly as the first storing of L left it.
C1_IngestionIdempotent ==
    \A L \in FetchedLists :
        LET once == storeNewTrackingNumbers(db, L, now)
        IN  \A t \in now..MaxTime : storeNewTrackingNumbers(once, L, t) = once

\* A list was just stored whose tracking number had a row from an earlier second,
\* by now delivered.
C1_Witness ==
    /\ last.op = "store"
    /\ \E j \in DOMAIN last.input :
         \E r \in RowsOf(db, last.input[j].trackingNumber) :
             r.created_at < now /\ r.status = delivered

\* C2: in every reachable store, storing a list leaves every row whose tracking
\* number the list carries as it was (status, order_number, created_at and
\* updated_at), and adds no second row for it.
C2_DuplicateInsertNoOp ==
    \A L \in FetchedLists :
        LET after == storeNewTrackingNumbers(db, L, now)
        IN  \A i \in DOMAIN db :
                Mentions(L, db[i].tracking_number)
                    => RowsOf(after, db[i].tracking_number) = {db[i]}

\* A list was just stored that carries, under another order number, the tracking
\* number of a row that an update of a later second had set to delivered.
C2_Witness ==
    /\ last.op = "store"
    /\ \E j \in DOMAIN last.input :
         \E r \in RowsOf(db, last.input[j].trackingNumber) :
             /\ r.created_at < r.updated_at
             /\ r.status = delivered
             /\ r.order_number # last.input[j].orderNumber

\* C3: the store never holds two rows with one tracking number.
C3_OneRowPerTrackingNumber ==
    \A i, j \in DOMAIN db : db[i].tracking_number = db[j].tracking_number => i = j

\* One invocation has just stored a list with a tracking number that the other,
\* still running, has fetched twice in its own list and is about to store.
C3_Witness ==
    /\ last.op = "store"
    /\ \E p \in Procs \ {last.proc} :
         /\ pc[p] = "store"
         /\ \E j, k \in DOMAIN shipments[p] :
              /\ j # k
              /\ shipments[p][j].trackingNumber = shipments[p][k].trackingNumber
              /\ Mentions(last.input, shipments[p][j].trackingNumber)
    /\ updOut.success

\* C4: in every reachable store, after a list L is stored every tracking number of
\* L has a row, and every row that was not there before is pending, was created
\* now and has the order number of the first shipment of L with its tracking number.
C4_IngestionPostcondition ==
    \A L \in FetchedLists :
        LET after == storeNewTrackingNumbers(db, L, now)
        IN  /\ \A j \in DOMAIN L : HasRow(after, L[j].trackingNumber)
            /\ \A k \in DOMAIN after :
                 ~HasRow(db, after[k].tracking_number)
                    => /\ Mentions(L, after[k].tracking_number)
                       /\ after[k].status = pending
                       /\ after[k].created_at = now
                       /\ after[k].order_number
                            = FirstOf(L, after[k].tracking_number).orderNumber

\* A list was just stored in which a tracking number comes twice, under two order
\* numbers, and its row, created by this step, has the first.
C4_Witness ==
    /\ last.op = "store"
    /\ now > 0
    /\ \E j, k \in DOMAIN last.input :
         /\ j < k
         /\ last.input[j].trackingNumber = last.input[k].trackingNumber
         /\ last.input[j].orderNumber # last.input[k].orderNumber
         /\ \E r \in RowsOf(db, last.input[j].trackingNumber) :
              /\ r.created_at = now
              /\ r.order_number = FirstOf(last.input, r.tracking_number).orderNumber

----------------------------------------------------------------------------
(* Reconciliation *)

\* C5: in every reachable store, for every payload, after handleStatusUpdates every
\* row whose tracking number the payload names has the status of the last entry
\* of the payload for that tracking number.
C5_LastWriteWinsInBatch ==
    \A b \in JsonPayloads :
        LET res == handleStatusUpdates(db, b, now)
        IN  /\ res.out.success
            /\ \A i \in DOMAIN db :
                 Updates(b.updates, db[i].tracking_number)
                    => /\ RowsOf(res.db, db[i].tracking_number) # {}
                       /\ \A r \in RowsOf(res.db, db[i].tracking_number) :
                            r.status = LastOf(b.updates, db[i].tracking_number).status

\* A payload with two entries of different status for one stored tracking number
\* was just applied.
C5_Witness ==
    /\ last.op = "update"
    /\ updOut.success
    /\ \E j, k \in DOMAIN last.input.updates :
         /\ j < k
         /\ last.input.updates[j].tracking_number = last.input.updates[k].tracking_number
         /\ last.input.updates[j].status # last.input.updates[k].status
         /\ \E r \in RowsOf(db, last.input.updates[k].tracking_number) :
              r.status = LastOf(last.input.updates, r.tracking_number).status

\* C6: in every reachable store, a payload with an entry for a tracking number that
\* has no row is answered {success: true}, adds no row, leaves every row the
\* payload does not name as it was, and applies its other entries.
C6_UnknownTrackingNumberIgnored ==
    \A b \in JsonPayloads :
        (\E j \in DOMAIN b.updates : ~HasRow(db, b.updates[j].tracking_number))
            => LET res == handleStatusUpdates(db, b, now)
               IN  /\ res.out.success /\ res.out.status = 200
                   /\ Len(res.db) = Len(db)
                   /\ \A i \in DOMAIN db :
                        res.db[i] =
                            IF Updates(b.updates, db[i].tracking_number)
                            THEN [db[i] EXCEPT
                                    !.status = LastOf(b.updates, db[i].tracking_number).status,
                                    !.updated_at = now]
                            ELSE db[i]

\* A payload was just applied with an entry for a tracking number that has no row
\* and a later entry for one that has: no row was added, the second was applied.
C6_Witness ==
    /\ last.op = "update"
    /\ updOut.success /\ updOut.status = 200
    /\ \E j, k \in DOMAIN last.input.updates :
         /\ j < k
         /\ ~HasRow(db, last.input.updates[j].tracking_number)
         /\ \E r \in RowsOf(db, last.input.updates[k].tracking_number) :
              /\ r.status = last.input.updates[k].status
              /\ r.status # pending
              /\ r.updated_at = now
              /\ r.created_at < now

----------------------------------------------------------------------------
(* The paginated fetch *)

\* A response that is no listing: a non-success status, or no shipments field.
Bad(r) == r.status < 200 \/ r.status > 299 \/ ~r.hasShipments

RECURSIVE Flatten(_)
\* The shipments of the responses R, in the order of R.
Flatten(R) == IF R = <<>> THEN <<>> ELSE Head(R).shipments \o Flatten(Tail(R))

Max(a, b) == IF a > b THEN a ELSE b

\* C7: in a run of the paginated fetch, a response of page k with a non-success
\* status or without shipments is the last one received, no page after k was
\* requested, the run has ended with an error and has handed over no shipment.
C7_FatalAbort ==
    \A p \in Procs :
        via[p] = "direct" =>
            \A k \in DOMAIN recv[p] :
                Bad(recv[p][k]) =>
                    /\ k = Len(recv[p])
                    /\ reqs[p] = [i \in 1..k |-> i]
                    /\ pc[p] = "idle"
                    /\ out[p].kind \in {"error", "logged"}
                    /\ out[p].error # ""
                    /\ out[p].shipments = <<>>
                    /\ shipments[p] = <<>>
                    /\ acc[p] = <<>>

\* Three pages were declared, the first carried shipments, the second came back
\* with a non-success status: the run is over, with an error, after two requests.
C7_Witness ==
    \E p \in Procs :
        /\ via[p] = "direct"
        /\ Len(recv[p]) = 2
        /\ recv[p][1].pages = 3 /\ recv[p][1].shipments # <<>>
        /\ ~Ok(recv[p][2])
        /\ reqs[p] = <<1, 2>>
        /\ out[p].kind = "error"

\* The list L is the whole listing that the responses R answer: the first page
\* declares the page count, every page 1..count was received, L is their shipments.
WholeListing(R, L) ==
    /\ Len(R) >= 1
    /\ Len(R) = Max(1, R[1].pages)
    /\ L = Project(Flatten(R))

\* The paginated fetch (index.ts) hands the handler the whole listing or nothing.
DirectAllOrNothing ==
    \A p \in Procs :
        via[p] = "direct" =>
            /\ pc[p] = "store" =>
                 /\ WholeListing(recv[p], shipments[p])
                 /\ \A k \in DOMAIN recv[p] : ~Bad(recv[p][k])
            /\ (out[p].kind = "ok" /\ p = "test") => WholeListing(recv[p], out[p].shipments)
            /\ out[p].kind \in {"error", "logged", "uncaught"} => out[p].shipments = <<>>

\* Three pages were fetched and their shipments handed to the handler.
DirectAllOrNothing_Witness ==
    \E p \in Procs :
        /\ via[p] = "direct" /\ pc[p] = "store"
        /\ Len(recv[p]) = 3
        /\ \A k \in 1..3 : recv[p][k].shipments # <<>>

\* C8: a list that fetchNewShipments (paginated or proxied) has returned holds the
\* shipments of all pages 1..count, count as the first response declared it, in
\* page order; a run that ended with an error has returned no list.
C8_AllOrNothing ==
    \A p \in Procs :
        /\ pc[p] = "store" => WholeListing(recv[p], shipments[p])
        /\ (out[p].kind = "ok" /\ p = "test") => WholeListing(recv[p], out[p].shipments)
        /\ out[p].kind \in {"error", "logged", "uncaught"} => out[p].shipments = <<>>

----------------------------------------------------------------------------
(* The search *)

Negated(raw) == raw # Absent /\ Len(raw) > 0 /\ Head(raw) = "!"

\* The text x contains the text X.
Contains(x, X) ==
    /\ x # NULL
    /\ \E k \in 0..Len(x) : k + Len(X) <= Len(x) /\ SubSeq(x, k + 1, k + Len(X)) = X

\* A text field x satisfies a substring filter: it contains the value, as the
\* store matches texts, or, for !X, does not contain it (as a field without a
\* value does not).
SatisfiesText(x, raw) ==
    IF Negated(raw)
    THEN x = NULL \/ ~LikeMatch(x, Around(Tail(raw)))
    ELSE x # NULL /\ LikeMatch(x, Around(raw))

SatisfiesStatus(x, raw) == IF Negated(raw) THEN x # Tail(raw) ELSE x = raw

\* The row satisfies all the filters the request supplies. A date filter that
\* is no date is satisfied by no row.
Satisfies(row, q) ==
    /\ Supplied(q.tracking_number) => SatisfiesText(row.tracking_number, q.tracking_number)
    /\ Supplied(q.order_number) => SatisfiesText(row.order_number, q.order_number)
    /\ Supplied(q.status) => SatisfiesStatus(row.status, q.status)
    /\ Supplied(q.created_after) =>
            DateTime(q.created_after) # NoInstant /\ row.created_at >= DateTime(q.created_after)
    /\ Supplied(q.created_before) =>
            DateTime(q.created_before) # NoInstant /\ row.created_at <= DateTime(q.created_before)

Answered == last.op = "search" /\ found.status = 200

InAnswer(row) == \E k \in DOMAIN found.results : found.results[k] = row

\* The row cap was reached before the row: the answer is full and lists no row
\* created after it.
CapReachedBefore(row) ==
    /\ found.count = SearchLimit
    /\ \A k \in DOMAIN found.results : found.results[k].created_at <= row.created_at

\* Every row a search returns satisfies all the supplied filters.
SearchSound ==
    Answered => \A k \in DOMAIN found.results : Satisfies(found.results[k], query)

\* Every row with an order number that satisfies all the supplied filters is
\* returned, unless the row cap was reached before it.
SearchCompleteOnOrdered ==
    Answered =>
        \A i \in DOMAIN db :
            (db[i].order_number # NULL /\ Satisfies(db[i], query)) =>
                InAnswer(db[i]) \/ CapReachedBefore(db[i])

SearchCompleteOnOrdered_Witness ==
    /\ Answered
    /\ Negated(query.order_number)
    /\ \E k \in DOMAIN found.results : found.results[k].order_number # NULL

\* C9: every row a search returns satisfies all the supplied filters, and every
\* row of the store that satisfies them, a row without an order number included,
\* is returned unless the row cap was reached before it.
C9_SearchSoundAndComplete ==
    Answered =>
        /\ \A k \in DOMAIN found.results : Satisfies(found.results[k], query)
        /\ \A i \in DOMAIN db :
                Satisfies(db[i], query) => InAnswer(db[i]) \/ CapReachedBefore(db[i])

\* C10: for a text filter given as !X, no returned row has the status X, or a
\* tracking number or order number containing X; the value compared is X, without
\* the leading !; and status=!delivered over the sample rows returns exactly the
\* first, second and fourth of them.
C10_Negation ==
    Answered =>
        /\ \A k \in DOMAIN found.results :
            LET row == found.results[k]
            IN  /\ Negated(query.status) => row.status # Tail(query.status)
                /\ Negated(query.tracking_number) =>
                        /\ ~Contains(row.tracking_number, Tail(query.tracking_number))
                        /\ ~LikeMatch(row.tracking_number, Around(Tail(query.tracking_number)))
                /\ Negated(query.order_number) =>
                        ~Contains(row.order_number, Tail(query.order_number))
        /\ \A raw \in {query.tracking_number, query.order_number, query.status} :
                Negated(raw) =>
                    /\ parseSearchValue(raw).operation = "!="
                    /\ parseSearchValue(raw).value = Tail(raw)
        /\ (/\ db = SampleRows
            /\ query = SearchParams(Absent, Absent, <<"!">> \o delivered, Absent, Absent)) =>
                /\ found.count = 3
                /\ {found.results[k] : k \in DOMAIN found.results}
                      = {SampleRows[1], SampleRows[2], SampleRows[4]}

\* The sample rows were searched with status=!delivered and three rows came back.
C10_Witness ==
    /\ Answered
    /\ db = SampleRows
    /\ query.status = <<"!">> \o delivered
    /\ found.count = 3

----------------------------------------------------------------------------
(* The text of the search statement *)

TextKeys == {"tracking_number", "order_number", "status"}
DateKeys == {"created_after", "created_before"}

\* Which keys a request supplies, and which of its text filters carry the marker.
Shape(q) ==
    [supplied |-> {k \in TextKeys \cup DateKeys : Supplied(q[k])},
     negated |-> {k \in TextKeys : Negated(q[k])}]

Placeholders(sql) == Cardinality({i \in DOMAIN sql : sql[i] = "?"})

\* The words a statement is made of whatever the values are.
SqlWords ==
    {"SELECT", "*", "FROM", "tracking_numbers", "WHERE", "1=1", "AND", "NOT", "LIKE",
     "tracking_number", "order_number", "status", "created_at", "=", "!=", ">=", "<=",
     "datetime(", "?", ")", "ORDER", "BY", "ASC", "LIMIT", "2000"}

\* The value a supplied text filter stands for: the raw value without its marker.
ValueOf(raw) == IF Negated(raw) THEN Tail(raw) ELSE raw

\* The values of a request, in the order of the clauses.
ValuesOf(q) ==
    (IF Supplied(q.tracking_number) THEN <<Around(ValueOf(q.tracking_number))>> ELSE <<>>)
    \o (IF Supplied(q.order_number) THEN <<Around(ValueOf(q.order_number))>> ELSE <<>>)
    \o (IF Supplied(q.status) THEN <<ValueOf(q.status)>> ELSE <<>>)
    \o (IF Supplied(q.created_after) THEN <<q.created_after>> ELSE <<>>)
    \o (IF Supplied(q.created_before) THEN <<q.created_before>> ELSE <<>>)

Searched == last.op \in {"search", "search rejected"}

\* C11: the text of the statement a search prepares is the text any request with
\* the same keys and the same markers gets, and is made of fixed words only; the
\* values are the bound parameters, as many as the text has placeholders.
C11_QueryTextIndependentOfValues ==
    Searched =>
        /\ \A q \in Queries : Shape(q) = Shape(query) => Statement(q).sql = stmt.sql
        /\ \A i \in DOMAIN stmt.sql : stmt.sql[i] \in SqlWords
        /\ stmt.bindings = ValuesOf(query)
        /\ Len(stmt.bindings) = Placeholders(stmt.sql)

\* A search with a negated tracking number filter and a status filter was handled,
\* and another request has the same keys and marker with another status.
C11_Witness ==
    /\ Searched
    /\ Negated(query.tracking_number)
    /\ Supplied(query.status)
    /\ Len(stmt.bindings) = 2
    /\ \E q \in Queries :
         /\ Shape(q) = Shape(query)
         /\ q.tracking_number # query.tracking_number
         /\ q.status # query.status

----------------------------------------------------------------------------
(* The URL export *)

RECURSIVE Split(_, _)
\* The texts that the separator sep lies between in the text x.
Split(x, sep) ==
    LET cuts == {k \in 1..(Len(x) - Len(sep) + 1) : SubSeq(x, k, k + Len(sep) - 1) = sep}
    IN  IF cuts = {} THEN <<x>>
        ELSE LET k == CHOOSE c \in cuts : \A e \in cuts : c <= e
             IN  <<SubSeq(x, 1, k - 1)>> \o Split(SubSeq(x, k + Len(sep), Len(x)), sep)

\* The identifiers a URL carries.
Labels(url) == IF url.labels = <<>> THEN <<>> ELSE Split(url.labels, Comma)

RECURSIVE AllLabels(_)
\* The identifiers of the URLs U, in URL order.
AllLabels(U) == IF U = <<>> THEN <<>> ELSE Labels(Head(U)) \o AllLabels(Tail(U))

Exported == last.op = "urls" /\ urlOut.status = 200

\* C12: for the N tracking numbers the query of /tracking-urls returned, the
\* response carries ceil(N/30) URLs, each with at least one and at most 30
\* identifiers, each but the last with exactly 30, their identifiers in URL order
\* being the list in its order; none for N = 0, and two for N = 31, the second
\* with one identifier.
C12_Chunking ==
    Exported =>
        LET N == Len(listed)
            U == urlOut.urls
        IN  /\ Len(U) = (N + ChunkSize - 1) \div ChunkSize
            /\ \A k \in DOMAIN U :
                 /\ Len(Labels(U[k])) \in 1..ChunkSize
                 /\ k < Len(U) => Len(Labels(U[k])) = ChunkSize
                 /\ U[k].base = "https://tools.usps.com/go/TrackConfirmAction.action?tLabels="
            /\ AllLabels(U) = listed
            /\ N = 0 => U = <<>>
            /\ N = ChunkSize + 1 => Len(U) = 2 /\ Len(Labels(U[2])) = 1

\* One more tracking number than a URL holds was exported, in two URLs.
C12_Witness ==
    /\ Exported
    /\ Len(listed) = ChunkSize + 1
    /\ Len(urlOut.urls) = 2
    /\ Labels(urlOut.urls[2]) = <<listed[ChunkSize + 1]>>

\* Nothing was to export: the answer is an empty list, no error.
C12_WitnessEmpty ==
    /\ Exported
    /\ db # <<>>
    /\ listed = <<>>
    /\ urlOut.urls = <<>>

\* How often the tracking number tn is among the identifiers A.
Occurrences(A, tn) == Cardinality({k \in DOMAIN A : A[k] = tn})

\* The URLs of the answer carry no tracking number of a delivered row, and carry
\* every other row's exactly once unless the row cap was reached.
TerminalExcluded ==
    LET A == AllLabels(urlOut.urls)
    IN  \A i \in DOMAIN db :
            IF db[i].status = delivered
            THEN Occurrences(A, db[i].tracking_number) = 0
            ELSE \/ Occurrences(A, db[i].tracking_number) = 1
                 \/ Len(listed) = UrlCap(last.input)

\* handleGetTrackingUrls of index.ts, and its variant with LIMIT 300, exclude the
\* delivered rows and export the others.
TerminalExcludedByDelivered ==
    (Exported /\ last.input # "Delivered") => TerminalExcluded

\* index.ts exported a store that holds delivered rows and others, in two URLs.
TerminalExcludedByDelivered_Witness ==
    /\ Exported /\ last.input = "index"
    /\ Len(urlOut.urls) = 2
    /\ Len(listed) < Len(db)
    /\ Len(listed) < UrlLimit

\* C13: no URL that /tracking-urls returns, in any of its variants, carries the
\* tracking number of a row whose status is 'delivered', and every row whose
\* status is not 'delivered' is carried by exactly one URL unless the row cap
\* was reached.
C13_TerminalExcluded == Exported => TerminalExcluded

----------------------------------------------------------------------------
(* Errors *)

\* An HTTP answer that reports a failure: a failure status and an error text.
ErrorAnswer(status, error) == status \in 400..599 /\ error # ""

\* How a run of the ingestion entry point p that failed has ended: /test-scheduled
\* with an error answer, scheduled() normally after logging; nothing escaped.
FailureHandled(p) ==
    IF p = "test"
    THEN out[p].kind = "error" /\ ErrorAnswer(out[p].status, out[p].error)
    ELSE out[p].kind = "logged" /\ out[p].error # ""

\* A failed run of the ingestion entry point p is over: it asked for no page
\* after the failure and holds nothing to store.
NotRetried(p) ==
    /\ pc[p] = "idle"
    /\ Len(reqs[p]) = Len(recv[p])
    /\ shipments[p] = <<>>

\* The failures of the ingestion entry point p end at its boundary.
IngestionBoundary(p) ==
    /\ out[p].kind # "uncaught"
    /\ (via[p] = "direct" /\ \E k \in DOMAIN recv[p] : Bad(recv[p][k])) =>
            FailureHandled(p) /\ NotRetried(p)
    /\ (via[p] = "proxied" /\ \E k \in DOMAIN recv[p] : ~recv[p][k].hasShipments) =>
            FailureHandled(p) /\ NotRetried(p)
    /\ (last.op = "store rejected" /\ last.proc = p) =>
            FailureHandled(p) /\ NotRetried(p)

\* The failures of /search, /tracking-urls and /tracking-status end in an error
\* answer.
QueryBoundary ==
    /\ last.op = "search rejected" => ErrorAnswer(found.status, found.error)
    /\ last.op = "urls rejected" => ErrorAnswer(urlOut.status, urlOut.error)
    /\ last.op = "update rejected" => ErrorAnswer(updOut.status, updOut.error)
    /\ (last.op = "update" /\ last.input.body = "invalid") =>
            ErrorAnswer(updOut.status, updOut.error)

\* In index.ts (and wherever /test-scheduled has its try) every failure stops at
\* the boundary of the entry point.
GuardedErrorsStopAtBoundary ==
    /\ QueryBoundary
    /\ IngestionBoundary("scheduled")
    /\ via["test"] = "direct" => IngestionBoundary("test")

\* /test-scheduled of index.ts has answered 500 to a store that rejected the batch.
GuardedErrorsStopAtBoundary_Witness ==
    /\ last.op = "store rejected" /\ last.proc = "test"
    /\ via["test"] = "direct"
    /\ out["test"].status = 500

\* C14: every failure (a non-success or malformed carrier response, a failing
\* store query or batch, a body that is no JSON) ends at the entry point: the HTTP
\* entry points answer {error} with a failure status and let no exception
\* escape, scheduled() ends normally after logging, and nothing is retried.
C14_ErrorsStopAtBoundary ==
    /\ QueryBoundary
    /\ \A p \in Procs : IngestionBoundary(p)

----------------------------------------------------------------------------
(* The life of a row *)

ReadOnlySteps == {"search", "search rejected", "urls", "urls rejected"}
UpdateSteps == {"update", "update rejected"}

\* C15: no step removes a tracking number from the store; only a step that
\* stores an ingested list adds one; a step of /search, /tracking-urls or
\* /tracking-status neither adds nor removes a row, and a step of /search or
\* /tracking-urls leaves the whole store as it was.
C15_RowLifecycle ==
    [][/\ TrackingNumbersOf(db) \subseteq TrackingNumbersOf(db')
       /\ Len(db') >= Len(db)
       /\ (TrackingNumbersOf(db') # TrackingNumbersOf(db) \/ Len(db') # Len(db)) =>
                last'.op = "store" /\ last'.proc \in Procs
       /\ last'.op \in UpdateSteps =>
                /\ Len(db') = Len(db)
                /\ \A i \in DOMAIN db : db'[i].tracking_number = db[i].tracking_number
       /\ last'.op \in ReadOnlySteps => db' = db]_vars

\* Rows were ingested, one was set to delivered, and a search has just returned
\* the other: the store still holds both.
C15_Witness ==
    /\ last.op = "search"
    /\ Len(db) = 2
    /\ found.count = 1
    /\ \E i \in DOMAIN db : db[i].status = delivered /\ db[i].updated_at >= db[i].created_at
    /\ urlOut.status = 200

----------------------------------------------------------------------------
(* The order of the page requests *)

\* The page requests of the run of p that have no response yet.
Outstanding(p) == Len(reqs[p]) - Len(recv[p])

\* The run of p has returned its list: the handler holds it, or has ended well.
Succeeded(p) == pc[p] = "store" \/ (pc[p] = "idle" /\ out[p].kind = "ok")

\* C16: in a run of the paginated fetch at most one page request is outstanding;
\* the pages are requested in the order 1, 2, ..; page k + 1 is requested only
\* when the response of every page up to k was received and accepted; no page
\* beyond the count of the first response is requested, whatever later responses
\* declare; and a run that succeeded issued exactly max(1, count) requests, has
\* none outstanding and issues no more.
C16_SequentialPagination ==
    \A p \in Procs :
        via[p] = "direct" =>
            /\ Outstanding(p) \in {0, 1}
            /\ Outstanding(p) = 1 <=> pc[p] = "await"
            /\ reqs[p] = [k \in 1..Len(reqs[p]) |-> k]
            /\ \A k \in DOMAIN reqs[p] :
                 k > 1 => /\ k - 1 \in DOMAIN recv[p]
                          /\ \A j \in 1..(k - 1) : ~Bad(recv[p][j])
            /\ recv[p] # <<>> => Len(reqs[p]) <= Max(1, recv[p][1].pages)
            /\ Succeeded(p) =>
                 /\ recv[p] # <<>>
                 /\ Len(reqs[p]) = Max(1, recv[p][1].pages)
                 /\ Outstanding(p) = 0

\* A run succeeded after three requests: the first response declared three pages,
\* the second declared another count.
C16_Witness ==
    \E p \in Procs :
        /\ via[p] = "direct"
        /\ Succeeded(p)
        /\ reqs[p] = <<1, 2, 3>>
        /\ recv[p][1].pages = 3
        /\ recv[p][2].pages # 3

\* A run succeeded after one request, its response declaring no page.
C16_WitnessNoPage ==
    \E p \in Procs :
        /\ via[p] = "direct"
        /\ Succeeded(p)
        /\ reqs[p] = <<1>>
        /\ recv[p][1].pages = 0

----------------------------------------------------------------------------
(* Batches *)

\* The entry point that ran the step has reported a failure.
FailureReported(step, o, u) ==
    CASE step.op = "store rejected" ->
            IF step.proc = "test"
            THEN o[step.proc].kind = "error" /\ ErrorAnswer(o[step.proc].status, o[step.proc].error)
            ELSE o[step.proc].kind = "logged"
      [] step.op = "update rejected" -> ~u.success /\ ErrorAnswer(u.status, u.error)
      [] OTHER -> FALSE

\* The entry point that ran the step has reported success.
SuccessReported(step, o, u) ==
    CASE step.op = "store" -> o[step.proc].kind = "ok"
      [] step.op = "update" -> u.success
      [] OTHER -> FALSE

\* Every statement of the batch of the step has taken effect in the store e.
WholeBatchIn(step, e, t) ==
    CASE step.op = "store" ->
            \A j \in DOMAIN step.input : HasRow(e, step.input[j].trackingNumber)
      [] step.op = "update" ->
            \A j \in DOMAIN step.input.updates :
                \A r \in RowsOf(e, step.input.updates[j].tracking_number) :
                    /\ r.updated_at = t
                    /\ r.status = LastOf(step.input.updates, r.tracking_number).status
      [] OTHER -> TRUE

\* C17: a step in which the store rejects the batch of storeNewTrackingNumbers or
\* of handleStatusUpdates leaves the store as it was and ends in a failure
\* report; a step that ends in a success report has applied its whole batch.
C17_BatchAllOrNothing ==
    [][/\ last'.op \in {"store rejected", "update rejected"} =>
            db' = db /\ FailureReported(last', out', updOut') /\ ~SuccessReported(last', out', updOut')
       /\ (last'.op \in {"store", "update"} /\ SuccessReported(last', out', updOut')) =>
            WholeBatchIn(last', db', now)]_vars

\* The store has just rejected a batch of several inserts of which the first
\* would have added a row: the store has no such row and the entry point
\* answered 500.
C17_Witness ==
    /\ last.op = "store rejected"
    /\ Len(last.input) >= 2
    /\ ~HasRow(db, last.input[1].trackingNumber)
    /\ last.proc = "test"
    /\ out["test"].status = 500

\* The store has just rejected a batch of two updates of which the first would
\* have changed a row.
C17_WitnessUpdate ==
    /\ last.op = "update rejected"
    /\ Len(last.input.updates) = 2
    /\ \E r \in RowsOf(db, last.input.updates[1].tracking_number) :
            r.status # last.input.updates[1].status
    /\ updOut.status = 500

----------------------------------------------------------------------------
(* Status updates in flight together *)

BothDone == \A c \in Clients : upd[c].pc = "done" /\ upd[c].body.body = "json"

\* The statuses the payload U supplies for the tracking number tn.
StatusesFor(U, tn) == {U[j].status : j \in {k \in DOMAIN U : U[k].tracking_number = tn}}

\* C18: when two status updates that were in flight together are both answered,
\* the store is what applying the two batches one after the other, in one of
\* the two orders, makes of the store before them; every row that a payload
\* names has a status that one of the two payloads supplies for it; both are
\* answered {success: true}.
C18_ConcurrentUpdatesSerialize ==
    BothDone =>
        LET A == upd["a"].body.updates
            B == upd["b"].body.updates
            ta == upd["a"].at
            tb == upd["b"].at
        IN  /\ \/ db = UpdateBatch(UpdateBatch(db0, A, ta), B, tb)
               \/ db = UpdateBatch(UpdateBatch(db0, B, tb), A, ta)
            /\ \A i \in DOMAIN db :
                 (Updates(A, db[i].tracking_number) \/ Updates(B, db[i].tracking_number)) =>
                    db[i].status \in StatusesFor(A, db[i].tracking_number)
                                        \cup StatusesFor(B, db[i].tracking_number)
            /\ \A c \in Clients : upd[c].out.success

\* Two updates of two entries each were in flight together, the one setting two
\* stored rows to a status, the other setting them to another; both are answered.
C18_Witness ==
    /\ BothDone
    /\ \E c \in Clients : upd[c].raced
    /\ Len(db) = 2
    /\ \A c \in Clients : Len(upd[c].body.updates) = 2
    /\ \A i \in DOMAIN db :
         /\ StatusesFor(upd["a"].body.updates, db[i].tracking_number) = {delivered}
         /\ StatusesFor(upd["b"].body.updates, db[i].tracking_number) = {pending}

----------------------------------------------------------------------------
(* Overwriting a status *)

Statuses == {pending, in_transit, delivered, out_for_delivery}

\* C19: in every reachable store, an update of any row to any status is answered
\* {success: true} and leaves the row with that status, whatever status it had,
\* and the rows a status update has just named have the status it gave last;
\* and an export of /tracking-urls (index.ts) carries every row whose status is
\* not delivered, a row that was delivered before included.
C19_UnconditionalOverwrite ==
    /\ \A i \in DOMAIN db, st \in Statuses :
         LET u == StatusUpdate(db[i].tracking_number, st)
             res == handleStatusUpdates(db, [body |-> "json", updates |-> <<u>>], now)
         IN  /\ res.out.success
             /\ Len(res.db) = Len(db)
             /\ res.db[i] = [db[i] EXCEPT !.status = st, !.updated_at = now]
    /\ (last.op = "update" /\ updOut.success) =>
         \A i \in DOMAIN db :
             Updates(last.input.updates, db[i].tracking_number) =>
                 db[i].status = LastOf(last.input.updates, db[i].tracking_number).status
    /\ (Exported /\ last.input = "index") =>
         \A i \in DOMAIN db :
             db[i].status # delivered =>
                 Occurrences(AllLabels(urlOut.urls), db[i].tracking_number) = 1

\* A row that was delivered has been set back to pending, and the export that
\* followed carries it.
C19_Witness ==
    /\ Exported /\ last.input = "index"
    /\ \E i \in DOMAIN db, j \in DOMAIN db0 :
         /\ db0[j].tracking_number = db[i].tracking_number
         /\ db0[j].status = delivered
         /\ db[i].status = pending
         /\ db[i].updated_at > db0[j].updated_at
         /\ Occurrences(AllLabels(urlOut.urls), db[i].tracking_number) = 1

----------------------------------------------------------------------------
(* The order and the cap of a search *)

NoFilter(q) == \A k \in TextKeys \cup DateKeys : ~Supplied(q[k])

\* The rows of the store that the statement of the request selects.
Selected(d, q) == {i \in DOMAIN d : Where(d[i], q)}

\* C20: the rows a search returns are rows of the store that its statement
\* selects, each once, in ascending created_at order, at most the cap of them,
\* and count is their number; all selected rows are returned when they are no
\* more than the cap, else as many as the cap, none created later than a
\* selected row left out; with no filter every row is selected.
C20_SearchOrderAndCap ==
    Answered =>
        LET R == found.results
            M == Selected(db, query)
        IN  /\ \A j, k \in DOMAIN R : j < k => R[j].created_at <= R[k].created_at
            /\ Len(R) <= SearchLimit
            /\ found.count = Len(R)
            /\ \A k \in DOMAIN R : \E i \in M : db[i] = R[k]
            /\ \A j, k \in DOMAIN R : R[j] = R[k] => j = k
            /\ Len(R) = Min(Cardinality(M), SearchLimit)
            /\ \A i \in M :
                 InAnswer(db[i]) \/ \A k \in DOMAIN R : R[k].created_at <= db[i].created_at
            /\ NoFilter(query) => M = DOMAIN db

\* A search without filter over five rows returned as many as the cap, and left
\* out the row created last.
C20_Witness ==
    /\ Answered
    /\ NoFilter(query)
    /\ Len(db) = 5
    /\ found.count = SearchLimit
    /\ \E i \in DOMAIN db : db[i].created_at = 1 /\ ~InAnswer(db[i])
    /\ \E k \in DOMAIN found.results : found.results[k].created_at = 0

----------------------------------------------------------------------------
(* The fields of a row that are written once *)

\* The row r with the status and the update time of the row s.
WithStatusOf(r, s) == [r EXCEPT !.status = s.status, !.updated_at = s.updated_at]

\* C21: in every step of the ingestions and the status updates, every row of the
\* store stays where it is with its tracking_number, order_number and created_at;
\* a step of a status update changes only status and updated_at, and only of the
\* rows its payload names, and leaves every other row as it was; a row that a
\* step adds has the tracking number and the order number of the shipment that
\* inserted it and is created now.
C21_FrozenIdentity ==
    [][/\ Len(db') >= Len(db)
       /\ \A i \in DOMAIN db :
            /\ db'[i].tracking_number = db[i].tracking_number
            /\ db'[i].order_number = db[i].order_number
            /\ db'[i].created_at = db[i].created_at
       /\ last'.op \in UpdateSteps =>
            /\ Len(db') = Len(db)
            /\ \A i \in DOMAIN db :
                 IF last'.op = "update" /\ Updates(last'.input.updates, db[i].tracking_number)
                 THEN db'[i] = WithStatusOf(db[i], db'[i])
                 ELSE db'[i] = db[i]
       /\ \A i \in (Len(db) + 1)..Len(db') :
            /\ last'.op = "store"
            /\ Mentions(last'.input, db'[i].tracking_number)
            /\ db'[i].order_number = FirstOf(last'.input, db'[i].tracking_number).orderNumber
            /\ db'[i].created_at = now]_vars

\* A row inserted in an earlier second under one order number was set to
\* delivered a second later, and a list carrying its tracking number under another
\* order number has just been stored: the row has the order number and the
\* creation time of its insertion.
C21_Witness ==
    /\ last.op = "store"
    /\ \E i \in DOMAIN db, j \in DOMAIN last.input :
         /\ last.input[j].trackingNumber = db[i].tracking_number
         /\ last.input[j].orderNumber # db[i].order_number
         /\ db[i].created_at = 0
         /\ db[i].updated_at = 1
         /\ db[i].status = delivered
         /\ now = 1

----------------------------------------------------------------------------
(* A fetch that fails *)

\* The run of p has ended in its fetch: a page came back with a non-success
\* status or without shipments, and the entry point reported the error.
FetchFailed(p) ==
    /\ pc[p] = "idle"
    /\ recv[p] # <<>>
    /\ Bad(recv[p][Len(recv[p])])
    /\ out[p].kind \in {"error", "logged"}

\* C22: in both ingestion entry points the store is written only by the step that
\* follows a fetch that returned: the step that enters the entry point and every
\* step that receives a page response, accepted or not, leave the store as it
\* was; the step in which a page fails ends the run with an error report and
\* nothing left to store; and a step that stores a list is taken by a run all of
\* whose page responses were accepted.
C22_FailedFetchPersistsNothing ==
    [][\A p \in Procs :
        /\ (reqs'[p] # reqs[p] \/ recv'[p] # recv[p]) => db' = db
        /\ (Len(recv'[p]) > Len(recv[p]) /\ Bad(recv'[p][Len(recv'[p])])) =>
             /\ db' = db
             /\ pc'[p] = "idle"
             /\ shipments'[p] = <<>>
             /\ out'[p].kind \in {"error", "logged"}
             /\ out'[p].shipments = <<>>
        /\ (pc[p] = "idle" /\ pc'[p] = "await") => db' = db
        /\ (last'.op \in {"store", "store rejected"} /\ last'.proc = p) =>
             /\ pc[p] = "store"
             /\ recv[p] # <<>>
             /\ \A k \in DOMAIN recv[p] : ~Bad(recv[p][k])
        /\ db' # db =>
             \/ last'.op = "store"
             \/ last'.op = "update"]_vars

\* Both entry points have fetched a first page of shipments and failed on the
\* second, over a store with one row, set to delivered since: the store still has
\* that row only, and none of the shipments of the first pages.
C22_Witness ==
    /\ \A p \in Procs :
         /\ FetchFailed(p)
         /\ Len(recv[p]) = 2
         /\ \E j \in DOMAIN recv[p][1].shipments :
              /\ recv[p][1].shipments[j].trackingNumber = T2
              /\ ~HasRow(db, T2)
    /\ Len(db) = 1
    /\ db[1].status = delivered

====
